---------------------------- MODULE Spec2Model ----------------------------
(***************************************************************************)
(* A model of posts/cubic_splines/general_spline_impl.py: the BSpline      *)
(* transformer (fit builds the padded knot vector, transform evaluates the *)
(* Cox-de Boor recursion row by row).                                      *)
(*                                                                         *)
(* Real numbers are exact rationals <<n, d>> in lowest terms with d > 0,   *)
(* so the properties are those of the algorithm in exact arithmetic.       *)
(* Sequences of the source are 0-based; At(s, i) reads s[i].               *)
(***************************************************************************)
EXTENDS Integers, Sequences, FiniteSets, TLC

(***************************************************************************)
(* Bounds of the model.                                                    *)
(***************************************************************************)
\* largest spline degree tried (degrees run from -2, so that the negative
\* degrees fit accepts or rejects are met too)
MaxDegree == 2
\* largest n_knots, and the longest explicit knot sequence
MaxKnots == 3
\* data values and explicit knots are the integers 0..MaxVal
MaxVal == 1
\* most samples in the data given to fit
MaxSamples == 2
\* most samples in a batch given to transform
MaxRows == 2
\* The padding factor of fit, 1e-10 in the source, is 1/EpsDen here: TLC's
\* integers are 32 bits wide, they cannot hold 10^10, and the exact entries
\* of a cubic row overflow them with a pad finer than 1/2.  The pad acts
\* only through being a positive multiple of the data's range.
EpsDen == 1

VARIABLES
    degree,         \* self.degree
    n_knots,        \* self.n_knots
    knots,          \* self.knots: None or the explicit interior knots
    include_bias,   \* self.include_bias
    fitted,         \* whether the attributes knots_ and n_bases_ exist
    knots_,         \* self.knots_
    n_bases_,       \* self.n_bases_
    call,           \* the last call made: its name and its argument X
    err,            \* how the last call ended: "ok" or the exception raised
    out             \* the matrix the last transform returned, or NoMatrix

vars == <<degree, n_knots, knots, include_bias, fitted, knots_, n_bases_,
          call, err, out>>

\* self.knots: None, or the explicit interior knots given
None == [given |-> FALSE, seq |-> <<>>]

Explicit(s) == [given |-> TRUE, seq |-> s]

\* no matrix returned (the call raised, or was not a transform)
NoMatrix == [shape |-> <<>>, rows |-> <<>>]

(***************************************************************************)
(* Exact rational arithmetic.                                              *)
(***************************************************************************)
Abs(a) == IF a < 0 THEN -a ELSE a

Min(a, b) == IF a < b THEN a ELSE b

Max(a, b) == IF a > b THEN a ELSE b

RECURSIVE GCD(_, _)
GCD(a, b) == IF b = 0 THEN a ELSE GCD(b, a % b)

Rat(n, d) ==
    LET g == GCD(Abs(n), Abs(d))
        s == IF d < 0 THEN -1 ELSE 1
    IN  <<s * (n \div g), s * (d \div g)>>

R(n) == <<n, 1>>

RAdd(a, b) ==
    LET g == GCD(a[2], b[2])
    IN  Rat(a[1] * (b[2] \div g) + b[1] * (a[2] \div g), (a[2] \div g) * b[2])

RNeg(a) == <<-a[1], a[2]>>

RSub(a, b) == RAdd(a, RNeg(b))

RMul(a, b) ==
    LET g1 == GCD(Abs(a[1]), b[2])
        g2 == GCD(Abs(b[1]), a[2])
    IN  IF a[1] = 0 \/ b[1] = 0 THEN R(0)
        ELSE <<(a[1] \div g1) * (b[1] \div g2), (a[2] \div g2) * (b[2] \div g1)>>

RDiv(a, b) == RMul(a, Rat(b[2], b[1]))

RLess(a, b) == RSub(a, b)[1] < 0

RLeq(a, b) == RSub(a, b)[1] <= 0

\* floor of a rational that is >= 0
RFloor(a) == a[1] \div a[2]

(***************************************************************************)
(* Sequences as the source indexes them.                                   *)
(***************************************************************************)
At(s, i) == s[i + 1]

\* s[i] with Python's negative indices
PyAt(s, i) == IF i < 0 THEN s[Len(s) + i + 1] ELSE s[i + 1]

Repeat(v, n) == [k \in 1..n |-> v]

RECURSIVE SumSeq(_)
SumSeq(s) == IF s = <<>> THEN R(0) ELSE RAdd(Head(s), SumSeq(Tail(s)))

\* min() and max() of a non-empty sequence of rationals
SeqMin(s) == CHOOSE v \in {s[k] : k \in 1..Len(s)} :
                \A w \in {s[k] : k \in 1..Len(s)} : RLeq(v, w)

SeqMax(s) == CHOOSE v \in {s[k] : k \in 1..Len(s)} :
                \A w \in {s[k] : k \in 1..Len(s)} : RLeq(w, v)

\* the sequence s in ascending order (insertion sort)
RECURSIVE Insert(_, _)
Insert(v, s) ==
    IF s = <<>> THEN <<v>>
    ELSE IF RLeq(v, Head(s)) THEN <<v>> \o s
    ELSE <<Head(s)>> \o Insert(v, Tail(s))

RECURSIVE Sorted(_)
Sorted(s) == IF s = <<>> THEN <<>> ELSE Insert(Head(s), Sorted(Tail(s)))


(***************************************************************************)
(* fit: the knot vector builder.                                           *)
(***************************************************************************)
\* the padding factor of lines 94 and 95
Eps == Rat(1, EpsDen)

\* np.linspace(0, 1, nk + 2)[1:-1]: the nk probabilities k/(nk+1)
Quantiles(nk) == [k \in 1..nk |-> Rat(k, nk + 1)]

\* np.quantile(data, q) for one probability q (linear interpolation between
\* the order statistics around the position q*(n-1))
Quantile(data, q) ==
    LET s     == Sorted(data)
        n     == Len(s)
        pos   == RMul(R(n - 1), q)
        lo    == RFloor(pos)
        hi    == Min(lo + 1, n - 1)
        gamma == RSub(pos, R(lo))
    IN  RAdd(At(s, lo), RMul(gamma, RSub(At(s, hi), At(s, lo))))

\* lines 82-87: the explicit knots as they are, or else the sample quantiles
InteriorKnots(kn, nk, X_flat) ==
    IF kn # None THEN kn.seq
    ELSE [k \in 1..nk |-> Quantile(X_flat, Quantiles(nk)[k])]

\* lines 91-95: the padded boundaries; line 95 reads the x_min line 94 has
\* already lowered
PaddedMin(X_flat) ==
    RSub(SeqMin(X_flat), RMul(Eps, RSub(SeqMax(X_flat), SeqMin(X_flat))))

PaddedMax(X_flat) ==
    RAdd(SeqMax(X_flat), RMul(Eps, RSub(SeqMax(X_flat), PaddedMin(X_flat))))

\* lines 97-101: the full knot vector
FitKnots(deg, kn, nk, X_flat) ==
    Repeat(PaddedMin(X_flat), deg + 1)
        \o InteriorKnots(kn, nk, X_flat)
        \o Repeat(PaddedMax(X_flat), deg + 1)

\* line 105
FitNBases(deg, kn, nk, X_flat) == Len(FitKnots(deg, kn, nk, X_flat)) - deg - 1

\* what fit raises on X, or "ok": line 77 raises ValueError when X has more
\* than one column, and np.repeat (lines 98, 100) raises ValueError on a
\* negative count
FitError(deg, X) ==
    IF X.ncols # 1 THEN "ValueError"
    ELSE IF deg + 1 < 0 THEN "ValueError"
    ELSE "ok"

(***************************************************************************)
(* _bspline_basis: the basis evaluator.                                    *)
(***************************************************************************)
\* np.searchsorted(a, x, side='right') for one key: numpy's binary search,
\* which on a sorted a returns the number of entries <= x
RECURSIVE BinSearchRight(_, _, _, _)
BinSearchRight(a, x, min_idx, max_idx) ==
    IF min_idx >= max_idx THEN min_idx
    ELSE LET mid == min_idx + ((max_idx - min_idx) \div 2)
         IN  IF RLess(x, At(a, mid))
             THEN BinSearchRight(a, x, min_idx, mid)
             ELSE BinSearchRight(a, x, mid + 1, max_idx)

\* a mutant of SearchSortedRight: side='left', the number of entries < x
RECURSIVE BinSearchLeft(_, _, _, _)
BinSearchLeft(a, x, min_idx, max_idx) ==
    IF min_idx >= max_idx THEN min_idx
    ELSE LET mid == min_idx + ((max_idx - min_idx) \div 2)
         IN  IF RLess(At(a, mid), x)
             THEN BinSearchLeft(a, x, mid + 1, max_idx)
             ELSE BinSearchLeft(a, x, min_idx, mid)

SearchSortedLeft(a, x) == BinSearchLeft(a, x, 0, Len(a))

SearchSortedRight(a, x) == BinSearchRight(a, x, 0, Len(a))

\* lines 164-174: the knot span of x
Span(x, deg, kv) ==
    LET n_bases == Len(kv) - deg - 1
    IN  IF x = PyAt(kv, -1) THEN n_bases - 1
        ELSE Max(deg, Min(SearchSortedRight(kv, x) - 1, n_bases - 1))

\* lines 177-179: the degree-0 vector; basis_prev[span] is a Python index, so
\* a span of -1 writes the last entry
Level0(x, deg, kv) ==
    LET n_bases == Len(kv) - deg - 1
        span    == Span(x, deg, kv)
        at      == IF span < 0 THEN span + n_bases ELSE span
    IN  [k \in 1..n_bases |->
            IF span < n_bases /\ k = at + 1 THEN R(1) ELSE R(0)]

\* a mutant of LeftTerm: the term reads basis_prev[i - 1] instead of
\* basis_prev[i]
LeftTermShifted(prev, i, d, x, kv) ==
    IF PyAt(prev, i - 1) # R(0)
    THEN LET denom == RSub(At(kv, i + d), At(kv, i))
         IN  IF denom # R(0)
             THEN RMul(RDiv(RSub(x, At(kv, i)), denom), PyAt(prev, i - 1))
             ELSE R(0)
    ELSE R(0)

\* lines 187-190: the left term of basis_curr[i] at level d
LeftTerm(prev, i, d, x, kv) ==
    IF At(prev, i) # R(0)
    THEN LET denom == RSub(At(kv, i + d), At(kv, i))
         IN  IF denom # R(0)
             THEN RMul(RDiv(RSub(x, At(kv, i)), denom), At(prev, i))
             ELSE R(0)
    ELSE R(0)

\* lines 193-196: the right term of basis_curr[i] at level d
RightTerm(prev, i, d, x, kv) ==
    IF i + 1 < Len(prev) /\ At(prev, i + 1) # R(0)
    THEN LET denom == RSub(At(kv, i + d + 1), At(kv, i + 1))
         IN  IF denom # R(0)
             THEN RMul(RDiv(RSub(At(kv, i + d + 1), x), denom), At(prev, i + 1))
             ELSE R(0)
    ELSE R(0)

\* lines 183-196: basis_curr at level d from basis_prev
Elevate(prev, d, x, kv) ==
    [k \in 1..Len(prev) |->
        RAdd(LeftTerm(prev, k - 1, d, x, kv), RightTerm(prev, k - 1, d, x, kv))]

\* basis_prev after the pass d of the loop of line 182 (d = 0: before it)
RECURSIVE Level(_, _, _, _)
Level(d, x, deg, kv) ==
    IF d <= 0 THEN Level0(x, deg, kv)
    ELSE Elevate(Level(d - 1, x, deg, kv), d, x, kv)

\* line 200: the row returned; range(1, degree + 1) is empty for degree < 1
BsplineBasis(x, deg, kv) == Level(Max(deg, 0), x, deg, kv)

\* line 169 reads knots[-1], an IndexError on an empty knot vector
BasisError(kv) == IF Len(kv) = 0 THEN "IndexError" ELSE "ok"

(***************************************************************************)
(* transform: the batch driver.                                            *)
(***************************************************************************)
\* a mutant of DropFirst: basis[:, :-1], the last column dropped
DropLast(row) == IF row = <<>> THEN <<>> ELSE SubSeq(row, 1, Len(row) - 1)

\* line 142: basis[:, 1:] on one row
DropFirst(row) == IF row = <<>> THEN <<>> ELSE Tail(row)

\* lines 134-144: the matrix returned, as its shape and its rows
TransformMatrix(X_flat, deg, kv, nb, bias) ==
    LET rows == [k \in 1..Len(X_flat) |-> BsplineBasis(X_flat[k], deg, kv)]
    IN  IF bias
        THEN [shape |-> <<Len(X_flat), nb>>, rows |-> rows]
        ELSE [shape |-> <<Len(X_flat), Max(nb - 1, 0)>>,
              rows  |-> [k \in 1..Len(X_flat) |-> DropFirst(rows[k])]]

\* what transform raises, or "ok": line 134 reads self.n_bases_, an
\* AttributeError before any successful fit; line 138 raises what
\* _bspline_basis raises, once there is a sample to evaluate
TransformError(isFitted, X_flat, kv) ==
    IF ~isFitted THEN "AttributeError"
    ELSE IF Len(X_flat) > 0 THEN BasisError(kv)
    ELSE "ok"

(***************************************************************************)
(* The transformer as a state machine: constructed with some parameters,   *)
(* then any sequence of fit and transform calls.                           *)
(***************************************************************************)
SeqsOf(S, lo, hi) == UNION {[1..k -> S] : k \in lo..hi}

Values == {R(v) : v \in 0..MaxVal}

Degrees == (0 - 2)..MaxDegree

\* the explicit knots tried: every sequence of values, ascending or not,
\* inside the data's range or not
ExplicitKnots == {Explicit(s) : s \in SeqsOf(Values, 0, MaxKnots)}

\* an argument X of fit or transform, after lines 72-74 (126-128): its
\* number of columns and its values in row-major order (X.ravel())
Array(ncols, flat) == [ncols |-> ncols, flat |-> flat]

FitInputs ==
    {Array(1, f) : f \in SeqsOf(Values, 1, MaxSamples)}
        \cup {Array(2, f) : f \in SeqsOf(Values, 2, 2)}

\* the query points tried one at a time: the half-integers across the data,
\* the two edges of the fitted domain, and a point one below the first knot
\* and one above the last
Grid == {Rat(k, 2) : k \in 0..(2 * MaxVal)}

Edges(deg, kv) ==
    IF deg >= 0 /\ Len(kv) > deg
    THEN {At(kv, deg), At(kv, Len(kv) - deg - 1)}
    ELSE {}

Beyond(kv) ==
    IF Len(kv) > 0
    THEN {RSub(At(kv, 0), R(1)), RAdd(PyAt(kv, 0 - 1), R(1))}
    ELSE {}

QueryPoints(deg, kv) == Grid \cup Edges(deg, kv) \cup Beyond(kv)

\* the arguments of transform tried: no sample, one query point, a batch of
\* data values, or one row of two columns
TransformInputs(deg, kv) ==
    {Array(1, f) : f \in SeqsOf(QueryPoints(deg, kv), 0, 1)}
        \cup {Array(1, f) : f \in SeqsOf(Values, 2, MaxRows)}
        \cup {Array(2, f) : f \in SeqsOf(Values, 2, 2)}

\* __init__ (lines 49-53); n_knots is left at MaxKnots when explicit knots
\* are given
Init ==
    /\ degree \in Degrees
    /\ \/ knots = None /\ n_knots \in 0..MaxKnots
       \/ knots \in ExplicitKnots /\ n_knots = MaxKnots
    /\ include_bias \in BOOLEAN
    /\ fitted = FALSE
    /\ knots_ = <<>>
    /\ n_bases_ = 0
    /\ call = [op |-> "init", X |-> Array(1, <<>>)]
    /\ err = "ok"
    /\ out = NoMatrix

\* a mutant of Fit: the fitted attributes are deleted on entry, before the
\* input is validated
FitResetsFirst(X) ==
    /\ call' = [op |-> "fit", X |-> X]
    /\ err' = FitError(degree, X)
    /\ out' = NoMatrix
    /\ IF FitError(degree, X) = "ok"
       THEN /\ fitted' = TRUE
            /\ knots_' = FitKnots(degree, knots, n_knots, X.flat)
            /\ n_bases_' = FitNBases(degree, knots, n_knots, X.flat)
       ELSE /\ fitted' = FALSE
            /\ knots_' = <<>>
            /\ n_bases_' = 0
    /\ UNCHANGED <<degree, n_knots, knots, include_bias>>

\* fit(X) (lines 55-107): a raise leaves the object as it was
Fit(X) ==
    /\ call' = [op |-> "fit", X |-> X]
    /\ err' = FitError(degree, X)
    /\ out' = NoMatrix
    /\ IF FitError(degree, X) = "ok"
       THEN /\ fitted' = TRUE
            /\ knots_' = FitKnots(degree, knots, n_knots, X.flat)
            /\ n_bases_' = FitNBases(degree, knots, n_knots, X.flat)
       ELSE UNCHANGED <<fitted, knots_, n_bases_>>
    /\ UNCHANGED <<degree, n_knots, knots, include_bias>>

\* transform(X) (lines 109-144)
Transform(X) ==
    /\ call' = [op |-> "transform", X |-> X]
    /\ err' = TransformError(fitted, X.flat, knots_)
    /\ out' = IF TransformError(fitted, X.flat, knots_) = "ok"
              THEN TransformMatrix(X.flat, degree, knots_, n_bases_, include_bias)
              ELSE NoMatrix
    /\ UNCHANGED <<degree, n_knots, knots, include_bias, fitted, knots_, n_bases_>>

Next ==
    \/ \E X \in FitInputs : Fit(X)
    \/ \E X \in TransformInputs(degree, knots_) : Transform(X)

Spec == Init /\ [][Next]_vars

(***************************************************************************)
(* _bspline_basis as a function of its arguments: a transformer of degree  *)
(* >= 0 just fitted on some data, then one evaluation at one query point   *)
(* (transform on that one sample, with the bias column kept, returns the   *)
(* row of _bspline_basis as it is).                                        *)
(***************************************************************************)
InitBasis ==
    /\ degree \in 0..MaxDegree
    /\ \/ knots = None /\ n_knots \in 0..MaxKnots
       \/ knots \in ExplicitKnots /\ n_knots = MaxKnots
    /\ include_bias = TRUE
    /\ fitted = TRUE
    /\ \E f \in SeqsOf(Values, 1, MaxSamples) :
          /\ call = [op |-> "fit", X |-> Array(1, f)]
          /\ knots_ = FitKnots(degree, knots, n_knots, f)
          /\ n_bases_ = FitNBases(degree, knots, n_knots, f)
    /\ err = "ok"
    /\ out = NoMatrix

Evaluate(x) ==
    /\ call.op = "fit"
    /\ Transform(Array(1, <<x>>))

NextBasis == \E x \in QueryPoints(degree, knots_) : Evaluate(x)

SpecBasis == InitBasis /\ [][NextBasis]_vars

(***************************************************************************)
(* Vocabulary of the properties.                                           *)
(***************************************************************************)
\* the last call was a transform that returned a matrix
Transformed == call.op = "transform" /\ err = "ok"

\* the last call was a fit that returned
FitDone == call.op = "fit" /\ err = "ok"

\* the samples of the last call, X.ravel()
Samples == call.X.flat

\* the row _bspline_basis returns for the k-th sample of the last call
RowOf(k) == BsplineBasis(Samples[k], degree, knots_)

\* the domain [knots[degree], knots[n_bases]] of the fitted spline
LeftEdge == At(knots_, degree)

RightEdge == At(knots_, n_bases_)

InDomain(x) == RLeq(LeftEdge, x) /\ RLeq(x, RightEdge)

StrictlyInside(x) == RLess(LeftEdge, x) /\ RLess(x, RightEdge)

NonDecreasing(s) == \A k \in 1..(Len(s) - 1) : RLeq(s[k], s[k + 1])

NonZeroAt(row) == {i \in 0..(Len(row) - 1) : At(row, i) # R(0)}

\* the number of interior knots of the configuration
NInterior == IF knots # None THEN Len(knots.seq) ELSE n_knots

\* row is 1 at index i and 0 elsewhere
OneHotAt(row, i) ==
    \A j \in 0..(Len(row) - 1) : At(row, j) = IF j = i THEN R(1) ELSE R(0)

(***************************************************************************)
(* The properties of _bspline_basis, under SpecBasis.  There the matrix    *)
(* of a transform has one row, out.rows[1], the row _bspline_basis         *)
(* returned for the sample Samples[1].                                     *)
(***************************************************************************)

\* C1: partition of unity.  For every degree >= 0, every knot vector fit
\* produces and every x strictly inside [knots[degree], knots[n_bases]], the
\* entries of the row _bspline_basis returns sum to 1.
C1_PartitionOfUnity ==
    Transformed =>
        \A k \in 1..Len(Samples) :
            StrictlyInside(Samples[k]) => SumSeq(out.rows[k]) = R(1)

\* C2: boundary exactness.  For every knot vector fit produces, evaluating
\* at x = knots[degree] and at x = knots[n_bases] does not raise and returns
\* a row whose entries sum to 1.
C2_BoundaryExactness ==
    call.op = "transform" =>
        \A k \in 1..Len(Samples) :
            Samples[k] \in {LeftEdge, RightEdge} =>
                err = "ok" /\ SumSeq(out.rows[k]) = R(1)

\* C3: non-negativity.  For every x in [knots[degree], knots[n_bases]] every
\* entry of the row is >= 0, at the final level and at every recursion level
\* d in 1..degree.
C3_NonNegativity ==
    Transformed =>
        \A k \in 1..Len(Samples) :
            InDomain(Samples[k]) =>
                /\ \A j \in 1..Len(out.rows[k]) : RLeq(R(0), out.rows[k][j])
                /\ \A d \in 1..degree :
                      \A j \in 1..n_bases_ :
                          RLeq(R(0), Level(d, Samples[k], degree, knots_)[j])

\* C4: local support.  For every query point x, inside the data's range or
\* outside it, the row has at most degree+1 non-zero entries, all at indices
\* within [span-degree, span]; after the pass d of the recursion the
\* non-zero entries lie within [span-d, span].
C4_LocalSupport ==
    Transformed =>
        \A k \in 1..Len(Samples) :
            LET x    == Samples[k]
                span == Span(x, degree, knots_)
            IN  /\ Cardinality(NonZeroAt(out.rows[k])) <= degree + 1
                /\ \A i \in NonZeroAt(out.rows[k]) :
                      span - degree <= i /\ i <= span
                /\ \A d \in 0..degree :
                      \A i \in NonZeroAt(Level(d, x, degree, knots_)) :
                          span - d <= i /\ i <= span

\* C4's case: a quadratic row with all three entries of its support non-zero,
\* among more than three basis functions
C4_Witness ==
    /\ Transformed
    /\ degree = 2
    /\ n_bases_ > 3
    /\ Cardinality(NonZeroAt(out.rows[1])) = 3

\* C9: degree-0 reduction.  For degree 0 and every x in [knots[0],
\* knots[last]] the row is exactly one-hot, at the index i of the interval
\* containing x (knots[i] <= x < knots[i+1]; x = knots[last] goes to
\* i = n_bases - 1).  For every degree and every x the located span lies in
\* [degree, n_bases - 1], so line 179 writes inside the vector.
C9_DegreeZero ==
    Transformed =>
        \A k \in 1..Len(Samples) :
            LET x    == Samples[k]
                last == PyAt(knots_, -1)
                span == Span(x, degree, knots_)
            IN  /\ degree <= span /\ span <= n_bases_ - 1
                /\ degree = 0 /\ RLeq(At(knots_, 0), x) /\ RLeq(x, last) =>
                      \E i \in 0..(n_bases_ - 1) :
                          /\ OneHotAt(out.rows[k], i)
                          /\ IF x = last THEN i = n_bases_ - 1
                             ELSE /\ RLeq(At(knots_, i), x)
                                  /\ RLess(x, At(knots_, i + 1))

\* C9's case: degree 0, x exactly on an interior knot that is not the last
\* knot, and the row one-hot at the interval that starts at that knot
C9_Witness ==
    /\ Transformed
    /\ degree = 0
    /\ n_bases_ >= 2
    /\ Samples[1] = At(knots_, 1)
    /\ Samples[1] # PyAt(knots_, -1)
    /\ OneHotAt(out.rows[1], 1)

(***************************************************************************)
(* The properties of fit and transform, under Spec.                        *)
(***************************************************************************)

\* C5: after every successful fit the knot vector has length
\* n_interior + 2*(degree+1), is non-decreasing, starts with degree+1 copies
\* of the padded x_min, ends with degree+1 copies of the padded x_max, and
\* has the interior knots in between, for quantile knots and for explicit
\* knots alike.
C5_KnotVector ==
    FitDone /\ degree >= 0 =>
        /\ Len(knots_) = NInterior + 2 * (degree + 1)
        /\ NonDecreasing(knots_)
        /\ \A i \in 0..degree :
              /\ At(knots_, i) = PaddedMin(Samples)
              /\ At(knots_, Len(knots_) - 1 - i) = PaddedMax(Samples)
        /\ SubSeq(knots_, degree + 2, degree + 1 + NInterior)
              = InteriorKnots(knots, n_knots, Samples)

\* C7: fit fails with the input-validation error (ValueError in the code)
\* whenever degree < 0, the explicit knots are not ascending, the
\* configuration implies n_bases < 1, or the input has more than one column.
C7_FitRejects ==
    /\ call.op = "fit"
    /\ \/ degree < 0
       \/ knots # None /\ ~NonDecreasing(knots.seq)
       \/ NInterior + degree + 1 < 1
       \/ call.X.ncols # 1
    => err = "ValueError"

\* C8: a transform not preceded by a successful fit fails with fit's error
\* kind (ValueError in the code) and returns no matrix, and so does a
\* transform whose input has more than one column.
C8_TransformRejects ==
    /\ call.op = "transform"
    /\ ~fitted \/ call.X.ncols # 1
    => err = "ValueError" /\ out = NoMatrix

\* C6: shape contract.  After a successful fit n_bases_ is
\* n_interior + degree + 1, and transform on m samples returns a matrix of
\* exactly m rows, row k being the basis row of the k-th sample, with n_bases_
\* columns when include_bias is true and, when it is false, n_bases_ - 1
\* columns: column 0 dropped, the others unchanged.  (degree >= 0, and X a
\* sequence of m reals: what fit makes of a negative degree is C7's subject,
\* what transform makes of several columns is C8's.)
C6_ShapeContract ==
    /\ fitted /\ degree >= 0 => n_bases_ = NInterior + degree + 1
    /\ call.op = "transform" /\ fitted /\ degree >= 0 /\ call.X.ncols = 1 =>
          LET m    == Len(Samples)
              cols == IF include_bias THEN n_bases_ ELSE n_bases_ - 1
          IN  /\ err = "ok"
              /\ out.shape = <<m, cols>>
              /\ Len(out.rows) = m
              /\ \A k \in 1..m :
                    /\ Len(out.rows[k]) = cols
                    /\ \A j \in 0..(cols - 1) :
                          At(out.rows[k], j) =
                              At(RowOf(k), IF include_bias THEN j ELSE j + 1)

\* C6's case: a batch of two different samples transformed without the bias
\* column, the two rows different
C6_Witness ==
    /\ Transformed
    /\ ~include_bias
    /\ degree >= 1
    /\ call.X.ncols = 1
    /\ Len(Samples) = 2
    /\ Samples[1] # Samples[2]
    /\ out.rows[1] # out.rows[2]

\* C10: the fitted state is read-only for transform and replaced by fit.
\* Every transform leaves knots_, n_bases_ and the configuration unchanged;
\* every successful fit leaves knots_ and n_bases_ equal to what fit computes
\* from that call's data and the configuration alone, whatever was fitted
\* before; a fit that raises leaves knots_ and n_bases_ unchanged.
C10_FittedStateFrame ==
    [][/\ call'.op = "transform" =>
              UNCHANGED <<fitted, knots_, n_bases_,
                          degree, n_knots, knots, include_bias>>
       /\ call'.op = "fit" /\ err' = "ok" =>
              /\ fitted'
              /\ knots_' = FitKnots(degree, knots, n_knots, call'.X.flat)
              /\ n_bases_' = Len(knots_') - degree - 1
       /\ call'.op = "fit" /\ err' # "ok" =>
              UNCHANGED <<fitted, knots_, n_bases_>>]_vars

\* C10's case: a fit has raised on a transformer that was fitted before, and
\* the earlier knot vector is still there
C10_Witness ==
    /\ call.op = "fit"
    /\ err = "ValueError"
    /\ fitted
    /\ degree >= 0
    /\ Len(knots_) > 0

=============================================================================
